---- MODULE Spec2Model ----
(***************************************************************************)
(* A model of rio_toa/sun_utils.py: the parsing of the acquisition time,   *)
(* the solar geometry formulas and the per-pixel sun elevation field.      *)
(*                                                                         *)
(* Numbers.  Python floats that come from +, -, *, / on the inputs are     *)
(* modelled as exact rationals <<n, d>> (d > 0, lowest terms).  The values *)
(* of np.sin / np.cos and the argument of np.arcsin are fixed-point        *)
(* integers in units of 1/Scale, rounded after every multiplication, and   *)
(* the trigonometric functions are tabulated to the nearest degree.        *)
(* A value in radians is the tagged pair <<"rad", q>>, q being the same    *)
(* angle measured in degrees, so that a degree value cannot be passed      *)
(* where radians are expected.                                             *)
(*                                                                         *)
(* Text.  A Python str is a sequence of one-character strings.             *)
(***************************************************************************)
EXTENDS Integers, Sequences, FiniteSets, TLC

VARIABLES
    fn,       \* the function being called
    args,     \* its arguments, by name
    pc,       \* the line about to run; "done" once the call has ended
    locals,   \* the local variables assigned so far, by name
    outcome   \* <<"running">>, <<"return", value>> or <<"raise", exception>>

vars == <<fn, args, pc, locals, outcome>>

----------------------------------------------------------------------------
(* Rational arithmetic: Python float +, -, *, / without rounding.          *)

Abs(n) == IF n < 0 THEN -n ELSE n

RECURSIVE GCD(_, _)
GCD(a, b) == IF b = 0 THEN a ELSE GCD(b, a % b)

\* n/d in lowest terms with a positive denominator (d # 0).
Rat(n, d) ==
    LET g == GCD(Abs(n), Abs(d))
        s == IF d < 0 THEN -1 ELSE 1
    IN  <<(s * n) \div g, (s * d) \div g>>

RInt(n) == <<n, 1>>
RAdd(p, q) == Rat(p[1] * q[2] + q[1] * p[2], p[2] * q[2])
RSub(p, q) == Rat(p[1] * q[2] - q[1] * p[2], p[2] * q[2])
RMul(p, q) == Rat(p[1] * q[1], p[2] * q[2])
RDiv(p, q) == Rat(p[1] * q[2], p[2] * q[1])
RNeg(p) == <<-p[1], p[2]>>
RLt(p, q) == p[1] * q[2] < q[1] * p[2]
RLe(p, q) == p[1] * q[2] <= q[1] * p[2]
RAbs(p) == <<Abs(p[1]), p[2]>>

\* n/d rounded to the nearest integer (d > 0), halves upwards.
RoundDiv(n, d) == (2 * n + d) \div (2 * d)
RRound(p) == RoundDiv(p[1], p[2])

----------------------------------------------------------------------------
(* Text.                                                                   *)

DigitChars == <<"0", "1", "2", "3", "4", "5", "6", "7", "8", "9">>
Digits == {DigitChars[i] : i \in 1..10}
DigitVal(c) == CHOOSE i \in 0..9 : DigitChars[i + 1] = c

\* int() of a string of decimal digits.
RECURSIVE IntOf(_)
IntOf(s) ==
    IF s = <<>> THEN 0
    ELSE 10 * IntOf(SubSeq(s, 1, Len(s) - 1)) + DigitVal(s[Len(s)])

\* str.split(".")[0]: the text before the first "." (all of it without one).
SplitDot0(s) ==
    IF \E i \in 1..Len(s) : s[i] = "."
    THEN LET k == CHOOSE i \in 1..Len(s) :
                      s[i] = "." /\ \A j \in 1..(i - 1) : s[j] # "."
         IN  SubSeq(s, 1, k - 1)
    ELSE s

----------------------------------------------------------------------------
(* parse_utc_string                                                        *)

\* The fixed part of the pattern of line 26, one character class a position:
\* [0-9]{4}\-[0-9]{2}\-[0-9]{2}\ [0-9]{2}\:[0-9]{2}\:[0-9]{2}\.
PatternHead ==
    <<Digits, Digits, Digits, Digits, {"-"}, Digits, Digits, {"-"},
      Digits, Digits, {" "}, Digits, Digits, {":"}, Digits, Digits, {":"},
      Digits, Digits, {"."}>>

\* re.match of line 26: the pattern is anchored at the start of the string
\* only; after the fixed part come one or more digits ([0-9]+) and a Z, and
\* whatever follows the Z is not looked at.
ReMatch(s) ==
    /\ Len(s) >= Len(PatternHead)
    /\ \A i \in 1..Len(PatternHead) : s[i] \in PatternHead[i]
    /\ \E k \in (Len(PatternHead) + 1)..(Len(s) - 1) :
          /\ \A i \in (Len(PatternHead) + 1)..k : s[i] \in Digits
          /\ s[k + 1] = "Z"

IsLeap(y) == (y % 4 = 0 /\ y % 100 # 0) \/ y % 400 = 0

DaysInMonth(y, m) ==
    IF m = 2 THEN (IF IsLeap(y) THEN 29 ELSE 28)
    ELSE IF m \in {4, 6, 9, 11} THEN 30 ELSE 31

ValueError(text, arg) == [kind |-> "ValueError", text |-> text, arg |-> arg]

Returned(v) == [ok |-> TRUE, val |-> v]
Raised(e) == [ok |-> FALSE, exc |-> e]

\* datetime.datetime.strptime(s, "%Y-%m-%d %H:%M:%S") for a string s of the
\* shape dddd-dd-dd dd:dd:dd, which is what line 30 passes once line 26 has
\* matched.  The directives accept: %m 01..12, %d 01..31, %H 00..23,
\* %M 00..59, %S 00..61; a two-digit field outside its range leaves the
\* format unmatched, except the last one, whose second digit is left over.
\* The date is then built (year >= 1, day within the month) and after it the
\* datetime (second <= 59).
strptime(s) ==
    LET Y == IntOf(SubSeq(s, 1, 4))
        m == IntOf(SubSeq(s, 6, 7))
        d == IntOf(SubSeq(s, 9, 10))
        H == IntOf(SubSeq(s, 12, 13))
        M == IntOf(SubSeq(s, 15, 16))
        S == IntOf(SubSeq(s, 18, 19))
    IN  IF ~(m \in 1..12 /\ d \in 1..31 /\ H \in 0..23 /\ M \in 0..59)
        THEN Raised(ValueError("time data does not match format", s))
        ELSE IF S > 61
        THEN Raised(ValueError("unconverted data remains", SubSeq(s, 19, 19)))
        ELSE IF Y < 1
        THEN Raised(ValueError("year is out of range", <<>>))
        ELSE IF d > DaysInMonth(Y, m)
        THEN Raised(ValueError("day is out of range for month", <<>>))
        ELSE IF S > 59
        THEN Raised(ValueError("second must be in 0..59", <<>>))
        ELSE Returned([year |-> Y, month |-> m, day |-> d,
                       hour |-> H, minute |-> M, second |-> S])

\* A variant of parse_utc_string that rounds the second to the nearest
\* instead of dropping the fraction.
parse_utc_string_rounding(collected_date, collected_time_utc) ==
    LET utcstr == collected_date \o <<" ">> \o collected_time_utc
        r == strptime(SplitDot0(utcstr))
    IN  IF ~ReMatch(utcstr)
        THEN Raised(ValueError("is an invalid utc time", utcstr))
        ELSE IF r.ok /\ DigitVal(utcstr[Len(PatternHead) + 1]) >= 5
                  /\ r.val.second < 59
        THEN Returned([r.val EXCEPT !.second = @ + 1])
        ELSE r

parse_utc_string(collected_date, collected_time_utc) ==
    LET utcstr == collected_date \o <<" ">> \o collected_time_utc
    IN  IF ~ReMatch(utcstr)
        THEN Raised(ValueError("is an invalid utc time", utcstr))
        ELSE strptime(SplitDot0(utcstr))

----------------------------------------------------------------------------
(* time_to_dec_hour, tm_yday                                               *)

time_to_dec_hour(parsedtime) ==
    RAdd(RAdd(RInt(parsedtime.hour), Rat(parsedtime.minute, 60)),
         Rat(parsedtime.second, 60 * 60))

\* datetime.timetuple().tm_yday: the 1-based day of the year.
RECURSIVE DaysBefore(_, _)
DaysBefore(y, m) ==
    IF m = 1 THEN 0 ELSE DaysBefore(y, m - 1) + DaysInMonth(y, m - 1)

tm_yday(t) == DaysBefore(t.year, t.month) + t.day

----------------------------------------------------------------------------
(* numpy's trigonometry, in fixed point.                                   *)

\* One unit of a fixed-point value is 1/Scale.
Scale == 100 * 100

\* sin of 0, 1, ..., 90 degrees, times Scale, to the nearest unit.
SinTable ==
    <<0, 175, 349, 523, 698, 872, 1045, 1219, 1392, 1564,
      1736, 1908, 2079, 2250, 2419, 2588, 2756, 2924, 3090, 3256,
      3420, 3584, 3746, 3907, 4067, 4226, 4384, 4540, 4695, 4848,
      5000, 5150, 5299, 5446, 5592, 5736, 5878, 6018, 6157, 6293,
      6428, 6561, 6691, 6820, 6947, 7071, 7193, 7314, 7431, 7547,
      7660, 7771, 7880, 7986, 8090, 8192, 8290, 8387, 8480, 8572,
      8660, 8746, 8829, 8910, 8988, 9063, 9135, 9205, 9272, 9336,
      9397, 9455, 9511, 9563, 9613, 9659, 9703, 9744, 9781, 9816,
      9848, 9877, 9903, 9925, 9945, 9962, 9976, 9986, 9994, 9998,
      10000>>

\* sin of a whole number of degrees.
SinDeg(a) ==
    LET r == a % 360
    IN  IF r <= 90 THEN SinTable[r + 1]
        ELSE IF r <= 180 THEN SinTable[180 - r + 1]
        ELSE IF r <= 270 THEN -SinTable[r - 180 + 1]
        ELSE -SinTable[360 - r + 1]

\* Not-a-number, what np.arcsin gives outside [-1, 1].
NaN == <<"nan">>

\* np.deg2rad, np.rad2deg: a change of unit.
deg2rad(q) == <<"rad", q>>
rad2deg(r) == r[2]

\* np.sin, np.cos of a value in radians; the angle is taken to the nearest
\* degree.
sin(r) == SinDeg(RRound(r[2]))
cos(r) == SinDeg(RRound(r[2]) + 90)

\* The product of two fixed-point values, rounded to the unit.
FMul(a, b) == RoundDiv(a * b, Scale)

\* np.arcsin of a fixed-point value, in radians, to the nearest degree of
\* the table; nan outside [-1, 1].
arcsin(v) ==
    IF v > Scale \/ v < -Scale THEN <<"rad", NaN>>
    ELSE LET lo == CHOOSE d \in -90..90 :
                       SinDeg(d) <= v /\ (d = 90 \/ SinDeg(d + 1) > v)
         IN  IF lo < 90 /\ SinDeg(lo + 1) - v < v - SinDeg(lo)
             THEN <<"rad", RInt(lo + 1)>>
             ELSE <<"rad", RInt(lo)>>

----------------------------------------------------------------------------
(* calculate_declination, solar_angle, _calculate_sun_elevation            *)

\* The coefficients of lines 69-73: 0.39799 and 0.98565 as integers over
\* CoefDen, 1.914 as an integer over MilliDen.
CoefDen == 100 * 1000
MilliDen == 10 * 100
C39799 == 39799
C98565 == 98565
C1914 == 1914

\* np.mean of a grid: the sum of all its elements over their number.
RECURSIVE SumTo(_, _, _)
SumTo(a, nc, k) ==
    IF k = 0 THEN RInt(0)
    ELSE RAdd(SumTo(a, nc, k - 1), a[(k - 1) \div nc][(k - 1) % nc])

NRows(a) == Cardinality(DOMAIN a)
NCols(a) == Cardinality(DOMAIN a[0])
mean(a) == RDiv(SumTo(a, NCols(a), NRows(a) * NCols(a)),
                RInt(NRows(a) * NCols(a)))

\* A variant of HemisphereSign that takes a mean latitude of 0 as northern.
HemisphereSignGe(la) ==
    ((IF RLe(RInt(0), mean(la)) THEN 1 ELSE 0) + 1) * 2 - 3

\* ((np.mean(lat) > 0) + 1) * 2 - 3, a bool counting as 0 or 1.
HemisphereSign(la) ==
    ((IF RLt(RInt(0), mean(la)) THEN 1 ELSE 0) + 1) * 2 - 3

\* The declination of the sun on day d, in radians.  The argument of the
\* cosine is a sum of radians: deg2rad(0.98565) * (d + 10) and
\* deg2rad(1.914) * sin(deg2rad(0.98565) * (d - 2)).
calculate_declination(d, la) ==
    LET inner == sin(deg2rad(Rat(C98565 * (d - 2), CoefDen)))
        angle == <<"rad", Rat(C98565 * (d + 10)
                              + RoundDiv(C1914 * inner,
                                         (Scale * MilliDen) \div CoefDen),
                              CoefDen)>>
        a == arcsin(RoundDiv(C39799 * cos(angle), CoefDen))
    IN  <<"rad", RMul(a[2], RInt(HemisphereSign(la)))>>

\* A variant of solar_angle that spreads the twelve hours over 360 degrees
\* of longitude.
solar_angle_360(h, lon) ==
    LET localtime == RAdd(RMul(RDiv(lon, RInt(360)), RInt(12)), h)
    IN  RMul(RSub(localtime, RInt(12)), Rat(360, 24))

solar_angle(h, lon) ==
    LET localtime == RAdd(RMul(RDiv(lon, RInt(180)), RInt(12)), h)
    IN  RMul(RSub(localtime, RInt(12)), Rat(360, 24))

\* Lines 118-128 for one point; nan stays nan through rad2deg and 90 - x.
_calculate_sun_elevation(lon, la, decl, h) ==
    LET hour_angle == solar_angle(h, lon)
        v == FMul(sin(deg2rad(la)), sin(decl))
             + FMul(FMul(cos(deg2rad(la)), cos(decl)),
                    cos(deg2rad(hour_angle)))
        e == rad2deg(arcsin(v))
    IN  IF e = NaN THEN NaN ELSE RSub(RInt(90), e)

\* Lines 118-128 on arrays of one shape: element by element.
ElevationArray(lonA, laA, decl, h) ==
    [r \in DOMAIN lonA |->
        [c \in DOMAIN lonA[r] |->
            _calculate_sun_elevation(lonA[r][c], laA[r][c], decl, h)]]

----------------------------------------------------------------------------
(* The arguments the callers pass.                                         *)

\* The largest rows or cols of a shape, the largest depth, the most digits
\* of a fraction of a second and the most characters after the Z.
MaxDim == 2
MaxDepth == 1
MaxFrac == 2
MaxExtra == 1

Str2(n) == <<DigitChars[((n \div 10) % 10) + 1], DigitChars[(n % 10) + 1]>>

\* "YYYY-MM-DD" and "HH:MM:SS.<frac>Z" as the docstrings give them.
DateStr(y, m, d) ==
    Str2(y \div 100) \o Str2(y % 100) \o <<"-">> \o Str2(m) \o <<"-">> \o Str2(d)
TimeStr(h, m, sec, frac) ==
    Str2(h) \o <<":">> \o Str2(m) \o <<":">> \o Str2(sec) \o <<".">> \o frac
    \o <<"Z">>

BoundingBox(l, b, r, t) == [left |-> l, bottom |-> b, right |-> r, top |-> t]

\* Rasters across the equator, north of it, south of it, and one of no width.
BoundsSet ==
    {BoundingBox(-10, -10, 10, 10), BoundingBox(0, 40, 20, 60),
     BoundingBox(-70, -40, -50, -10), BoundingBox(5, -20, 5, 0)}

\* (rows, cols), (depth, rows, cols), and tuples of other lengths.
ShapeSet ==
    {<<r, c>> : r \in 0..MaxDim, c \in 0..MaxDim}
    \cup {<<d, r, c>> : d \in 0..MaxDepth, r \in 0..MaxDim, c \in 0..MaxDim}
    \cup {<<>>, <<1>>, <<1, 1, 1, 1>>}

\* Acquisition times: by day and by night, around the year; with characters
\* after the Z; without a fraction; with a T; on a day that does not exist.
WhenSet ==
    {<<DateStr(2020, 6, 21), TimeStr(12, 0, 0, <<"0", "0">>)>>,
     <<DateStr(2020, 6, 21), TimeStr(0, 0, 0, <<"0">>)>>,
     <<DateStr(2020, 12, 21), TimeStr(18, 30, 0, <<"5">>)>>,
     <<DateStr(2020, 3, 20), TimeStr(12, 0, 0, <<"0">>)>>,
     <<DateStr(2020, 6, 21), TimeStr(12, 0, 0, <<"0">>) \o <<"x">>>>,
     <<DateStr(2020, 6, 21), <<"1", "2", ":", "0", "0", ":", "0", "0", "Z">>>>,
     <<DateStr(2020, 6, 21) \o <<"T">>, TimeStr(12, 0, 0, <<"0">>)>>,
     <<DateStr(2020, 2, 30), TimeStr(12, 0, 0, <<"0">>)>>}

----------------------------------------------------------------------------
(* sun_elevation, a line or two a step.                                    *)

Assign(name, v) == locals' = (name :> v) @@ locals
Raise(e) == /\ outcome' = <<"raise", e>>
            /\ pc' = "done"
            /\ UNCHANGED locals

\* lines 156-159: len(shape) == 3 takes the last two; otherwise the tuple
\* must have exactly two elements.
UnpackShapeFirstTwo(sh) ==
    IF Len(sh) = 3 THEN Returned(<<sh[1], sh[2]>>)
    ELSE IF Len(sh) = 2 THEN Returned(<<sh[1], sh[2]>>)
    ELSE Raised(ValueError("values to unpack", <<>>))

UnpackShape(sh) ==
    IF Len(sh) = 3 THEN Returned(<<sh[2], sh[3]>>)
    ELSE IF Len(sh) = 2 THEN Returned(<<sh[1], sh[2]>>)
    ELSE Raised(ValueError("values to unpack", <<>>))

\* x / float(n) of lines 161-162.
ZeroDivisionError == [kind |-> "ZeroDivisionError",
                      text |-> "float division by zero", arg |-> <<>>]
CellSize(hi, lo, n) ==
    IF n = 0 THEN Raised(ZeroDivisionError)
    ELSE Returned(RDiv(RInt(hi - lo), RInt(n)))

\* np.indices((rows, cols)): the row index and the column index of every
\* element.
indices(nr, nc) ==
    <<[r \in 0..(nr - 1) |-> [c \in 0..(nc - 1) |-> r]],
      [r \in 0..(nr - 1) |-> [c \in 0..(nc - 1) |-> c]]>>

\* lines 166, 167: index * cell + edge + cell / 2.0, element by element.
CentersNoHalf(ix, cell, edge) ==
    [r \in DOMAIN ix |->
        [c \in DOMAIN ix[r] |-> RAdd(RMul(RInt(ix[r][c]), cell), RInt(edge))]]

Centers(ix, cell, edge) ==
    [r \in DOMAIN ix |->
        [c \in DOMAIN ix[r] |->
            RAdd(RAdd(RMul(RInt(ix[r][c]), cell), RInt(edge)),
                 RDiv(cell, RInt(2)))]]

Line154 ==
    /\ fn = "sun_elevation" /\ pc = "l154"
    /\ LET r == parse_utc_string(args.date_collected, args.time_collected_utc)
       IN  IF r.ok
           THEN /\ Assign("utc_time", r.val)
                /\ pc' = "l156"
                /\ UNCHANGED outcome
           ELSE Raise(r.exc)
    /\ UNCHANGED <<fn, args>>

Line156 ==
    /\ fn = "sun_elevation" /\ pc = "l156"
    /\ LET r == UnpackShape(args.shape)
       IN  IF r.ok
           THEN /\ locals' = ("rows" :> r.val[1]) @@ ("cols" :> r.val[2]) @@ locals
                /\ pc' = "l161"
                /\ UNCHANGED outcome
           ELSE Raise(r.exc)
    /\ UNCHANGED <<fn, args>>

Line161 ==
    /\ fn = "sun_elevation" /\ pc = "l161"
    /\ LET x == CellSize(args.bounds.right, args.bounds.left, locals["cols"])
           y == CellSize(args.bounds.top, args.bounds.bottom, locals["rows"])
       IN  IF ~x.ok THEN Raise(x.exc)
           ELSE IF ~y.ok
           THEN /\ outcome' = <<"raise", y.exc>>
                /\ pc' = "done"
                /\ Assign("xCell", x.val)
           ELSE /\ locals' = ("xCell" :> x.val) @@ ("yCell" :> y.val) @@ locals
                /\ pc' = "l164"
                /\ UNCHANGED outcome
    /\ UNCHANGED <<fn, args>>

Line164 ==
    /\ fn = "sun_elevation" /\ pc = "l164"
    /\ LET ix == indices(locals["rows"], locals["cols"])
       IN  locals' = ("lng" :> Centers(ix[2], locals["xCell"], args.bounds.left))
                     @@ ("lat" :> Centers(ix[1], locals["yCell"], args.bounds.bottom))
                     @@ locals
    /\ pc' = "l169"
    /\ UNCHANGED <<fn, args, outcome>>

Line169 ==
    /\ fn = "sun_elevation" /\ pc = "l169"
    /\ LET h == time_to_dec_hour(locals["utc_time"])
       IN  locals' = ("decimal_hour" :> h)
                     @@ ("declination" :>
                            calculate_declination(tm_yday(locals["utc_time"]),
                                                  locals["lat"]))
                     @@ locals
    /\ pc' = "l173"
    /\ UNCHANGED <<fn, args, outcome>>

Line173 ==
    /\ fn = "sun_elevation" /\ pc = "l173"
    /\ outcome' = <<"return", ElevationArray(locals["lng"], locals["lat"],
                                             locals["declination"],
                                             locals["decimal_hour"])>>
    /\ pc' = "done"
    /\ UNCHANGED <<fn, args, locals>>

NoLocals == [n \in {} |-> 0]

Init ==
    /\ fn = "sun_elevation"
    /\ args \in {[bounds |-> b, shape |-> sh, date_collected |-> w[1],
                  time_collected_utc |-> w[2]] :
                 b \in BoundsSet, sh \in ShapeSet, w \in WhenSet}
    /\ pc = "l154"
    /\ locals = NoLocals
    /\ outcome = <<"running">>

Next == Line154 \/ Line156 \/ Line161 \/ Line164 \/ Line169 \/ Line173

Spec == Init /\ [][Next]_vars

\* The whole of sun_elevation as one function of its arguments: what a call
\* ends with.
sun_elevation(b, sh, date, time) ==
    LET t == parse_utc_string(date, time)
        u == UnpackShape(sh)
        x == CellSize(b.right, b.left, u.val[2])
        y == CellSize(b.top, b.bottom, u.val[1])
        ix == indices(u.val[1], u.val[2])
        lngA == Centers(ix[2], x.val, b.left)
        latA == Centers(ix[1], y.val, b.bottom)
    IN  IF ~t.ok THEN <<"raise", t.exc>>
        ELSE IF ~u.ok THEN <<"raise", u.exc>>
        ELSE IF ~x.ok THEN <<"raise", x.exc>>
        ELSE IF ~y.ok THEN <<"raise", y.exc>>
        ELSE <<"return",
               ElevationArray(lngA, latA,
                              calculate_declination(tm_yday(t.val), latA),
                              time_to_dec_hour(t.val))>>

----------------------------------------------------------------------------
(* parse_utc_string called on its own.                                     *)

\* Characters a malformed string may hold in place of the expected one.
Alphabet == {"0", "9", "-", ":", " ", ".", "Z", "z", "T", "x"}

\* All strings over cs of length at most n.
RECURSIVE StringsUpTo(_, _)
StringsUpTo(cs, n) ==
    IF n = 0 THEN {<<>>}
    ELSE LET shorter == StringsUpTo(cs, n - 1)
         IN  shorter \cup {Append(w, c) : w \in shorter, c \in cs}

Replace(w, i, c) == [w EXCEPT ![i] = c]
Delete(w, i) == SubSeq(w, 1, i - 1) \o SubSeq(w, i + 1, Len(w))

\* Dates on and off the calendar, at times on and off the clock.
CalendarInputs ==
    {<<DateStr(y, m, d), TimeStr(t[1], t[2], t[3], <<"0">>)>> :
        y \in {0, 1900, 2000, 2020, 2021}, m \in {0, 1, 2, 4, 12, 13},
        d \in {0, 1, 28, 29, 30, 31, 32},
        t \in {<<0, 0, 0>>, <<23, 59, 59>>, <<24, 0, 0>>, <<12, 60, 0>>,
               <<12, 0, 60>>, <<12, 0, 61>>, <<12, 0, 62>>}}

\* One instant with every fraction of at most MaxFrac digits (none too),
\* followed by at most MaxExtra further characters.
FractionInputs ==
    {<<DateStr(2020, 6, 1), TimeStr(t[1], t[2], t[3], f) \o e>> :
        t \in {<<12, 0, 0>>, <<23, 59, 59>>},
        f \in StringsUpTo({"0", "4", "5", "9"}, MaxFrac),
        e \in StringsUpTo({"Z", "x", ".", " ", "0"}, MaxExtra)}

\* A well-formed pair with one character replaced or dropped, with the
\* fraction or the Z left out, and with a T between date and time.
MalformedInputs ==
    LET date == DateStr(2020, 6, 1)
        time == TimeStr(12, 0, 0, <<"0">>)
    IN  {<<Replace(date, i, c), time>> : i \in 1..Len(date), c \in Alphabet}
        \cup {<<date, Replace(time, i, c)>> : i \in 1..Len(time), c \in Alphabet}
        \cup {<<Delete(date, i), time>> : i \in 1..Len(date)}
        \cup {<<date, Delete(time, i)>> : i \in 1..Len(time)}
        \cup {<<date, SubSeq(time, 1, 8) \o <<"Z">>>>,
              <<date, SubSeq(time, 1, 8)>>,
              <<date \o <<"T">> \o SubSeq(time, 1, 8) \o <<"Z">>, <<>>>>,
              <<date \o <<"T">> \o time, <<>>>>,
              <<<<>>, <<>>>>}

ParseInputs == CalendarInputs \cup FractionInputs \cup MalformedInputs

InitParse ==
    /\ fn = "parse_utc_string"
    /\ args \in {[collected_date |-> w[1], collected_time_utc |-> w[2]] :
                 w \in ParseInputs}
    /\ pc = "l24"
    /\ locals = NoLocals
    /\ outcome = <<"running">>

\* lines 24-31
ParseCall ==
    /\ fn = "parse_utc_string" /\ pc = "l24"
    /\ LET r == parse_utc_string(args.collected_date, args.collected_time_utc)
       IN  outcome' = IF r.ok THEN <<"return", r.val>> ELSE <<"raise", r.exc>>
    /\ locals' = ("utcstr" :> (args.collected_date \o <<" ">>
                               \o args.collected_time_utc)) @@ locals
    /\ pc' = "done"
    /\ UNCHANGED <<fn, args>>

NextParse == ParseCall

SpecParse == InitParse /\ [][NextParse]_vars

----------------------------------------------------------------------------
(* _calculate_sun_elevation called on its own, for one point.              *)

InitElev ==
    /\ fn = "_calculate_sun_elevation"
    /\ args \in {[longitude |-> RInt(15 * i), latitude |-> RInt(15 * j),
                  declination |-> <<"rad", RInt(23 * k)>>,
                  utc_hour |-> RInt(h)] :
                 i \in -12..12, j \in -6..6, k \in -1..1, h \in 0..23}
    /\ pc = "l118"
    /\ locals = NoLocals
    /\ outcome = <<"running">>

\* lines 118-128
ElevCall ==
    /\ fn = "_calculate_sun_elevation" /\ pc = "l118"
    /\ outcome' = <<"return",
                    _calculate_sun_elevation(args.longitude, args.latitude,
                                             args.declination, args.utc_hour)>>
    /\ locals' = ("hour_angle" :> solar_angle(args.utc_hour, args.longitude))
                 @@ locals
    /\ pc' = "done"
    /\ UNCHANGED <<fn, args>>

NextElev == ElevCall

SpecElev == InitElev /\ [][NextElev]_vars

----------------------------------------------------------------------------
(* The claims.                                                             *)

done == pc = "done"
returned == pc = "done" /\ outcome[1] = "return"
raised == pc = "done" /\ outcome[1] = "raise"
assigned(name) == name \in DOMAIN locals

\* The format the specification asks of date + " " + time, taken as a whole:
\* YYYY-MM-DD HH:MM:SS.<one or more digits>Z and nothing else.
ExactForm(s) ==
    /\ Len(s) >= 22
    /\ \A i \in 1..20 :
          IF i \in {5, 8} THEN s[i] = "-"
          ELSE IF i = 11 THEN s[i] = " "
          ELSE IF i \in {14, 17} THEN s[i] = ":"
          ELSE IF i = 20 THEN s[i] = "."
          ELSE s[i] \in Digits
    /\ \A i \in 21..(Len(s) - 1) : s[i] \in Digits
    /\ s[Len(s)] = "Z"

\* The string sun_elevation hands to the parser.
UtcStrOfCall == args.date_collected \o <<" ">> \o args.time_collected_utc

InRange(v) == v # NaN /\ RLe(RInt(-90), v) /\ RLe(v, RInt(90))

\* C1: every value of the array a sun_elevation call returns lies in
\* [-90, 90] degrees.
C1_ElevationWithinRange ==
    (fn = "sun_elevation" /\ returned) =>
        \A r \in DOMAIN outcome[2] : \A c \in DOMAIN outcome[2][r] :
            InRange(outcome[2][r][c])

\* C2: parse_utc_string returns a timestamp only when the whole of
\* date + " " + time has the exact form, and raises for everything else.
C2_AcceptsOnlyExactForm ==
    (fn = "parse_utc_string" /\ done) =>
        /\ outcome[1] = "return" => ExactForm(locals["utcstr"])
        /\ ~ExactForm(locals["utcstr"]) =>
              (outcome[1] = "raise" /\ outcome[2].kind = "ValueError")

\* C3: every failure of parse_utc_string is the one kind of error and
\* carries the rejected date + " " + time string.
C3_ErrorCarriesString ==
    (fn = "parse_utc_string" /\ raised) =>
        /\ outcome[2].kind = "ValueError"
        /\ outcome[2].arg = locals["utcstr"]

\* C4: when the date and time strings are malformed, sun_elevation fails
\* with the parser's error before it unpacks shape, reads bounds or builds
\* a grid; a call that ends has either raised or returned a full
\* (rows, cols) array.
C4_MalformedTimeFailsFirst ==
    /\ (fn = "sun_elevation" /\ pc # "l154" /\ ~ExactForm(UtcStrOfCall)) =>
          /\ raised
          /\ outcome[2].text = "is an invalid utc time"
          /\ DOMAIN locals = {}
    /\ (fn = "sun_elevation" /\ returned) =>
          /\ DOMAIN outcome[2] = 0..(locals["rows"] - 1)
          /\ \A r \in DOMAIN outcome[2] :
                DOMAIN outcome[2][r] = 0..(locals["cols"] - 1)

\* C5: a call with shape (depth, rows, cols) ends exactly as the call with
\* shape (rows, cols) and the same bounds, date and time does: the same
\* array, of shape (rows, cols), whatever the depth.
C5_DepthIgnored ==
    (fn = "sun_elevation" /\ done /\ Len(args.shape) = 3) =>
        LET two == sun_elevation(args.bounds, Tail(args.shape),
                                 args.date_collected, args.time_collected_utc)
        IN  /\ outcome[1] = two[1]
            /\ outcome[2] = two[2]
            /\ returned =>
                  /\ DOMAIN outcome[2] = 0..(args.shape[2] - 1)
                  /\ \A r \in DOMAIN outcome[2] :
                        DOMAIN outcome[2][r] = 0..(args.shape[3] - 1)

C5_Witness ==
    /\ fn = "sun_elevation" /\ returned
    /\ args.shape = <<0, 2, 1>>

\* C6: the timestamp parse_utc_string returns is the year, month, day,
\* hour, minute and second written in the first 19 characters; the
\* fraction never changes it, nor rounds the second up.
C6_FractionDiscarded ==
    (fn = "parse_utc_string" /\ returned) =>
        LET u == locals["utcstr"]
        IN  /\ outcome[2] = [year |-> IntOf(SubSeq(u, 1, 4)),
                             month |-> IntOf(SubSeq(u, 6, 7)),
                             day |-> IntOf(SubSeq(u, 9, 10)),
                             hour |-> IntOf(SubSeq(u, 12, 13)),
                             minute |-> IntOf(SubSeq(u, 15, 16)),
                             second |-> IntOf(SubSeq(u, 18, 19))]
            /\ \A f \in StringsUpTo({"0", "4", "5", "9"}, MaxFrac) \ {<<>>} :
                  parse_utc_string(SubSeq(u, 1, 10),
                                   SubSeq(u, 12, 20) \o f \o <<"Z">>)
                  = Returned(outcome[2])

C6_Witness ==
    /\ fn = "parse_utc_string" /\ returned
    /\ SubSeq(locals["utcstr"], 18, Len(locals["utcstr"]))
       = <<"5", "9", ".", "9", "9", "Z">>

\* C7, as claimed: the elevation at (longitude, h) equals the elevation at
\* (-longitude, h + 12).
C7_SignFlipTwelveHours ==
    (fn = "_calculate_sun_elevation" /\ returned) =>
        outcome[2] = _calculate_sun_elevation(RNeg(args.longitude),
                        args.latitude, args.declination,
                        RAdd(args.utc_hour, RInt(12)))

\* C7, amended: the elevation at (longitude, h) equals the elevation at
\* (longitude - 180, h + 12): half a turn of longitude makes up for twelve
\* hours.
C7_HalfTurnTwelveHours ==
    (fn = "_calculate_sun_elevation" /\ returned) =>
        outcome[2] = _calculate_sun_elevation(
                        RSub(args.longitude, RInt(180)),
                        args.latitude, args.declination,
                        RAdd(args.utc_hour, RInt(12)))

C7_Witness ==
    /\ fn = "_calculate_sun_elevation" /\ returned
    /\ args.longitude = RInt(30) /\ args.utc_hour = RInt(3)
    /\ args.latitude = RInt(45) /\ args.declination = <<"rad", RInt(23)>>
    /\ outcome[2] # _calculate_sun_elevation(RNeg(args.longitude),
                        args.latitude, args.declination,
                        RAdd(args.utc_hour, RInt(12)))

\* C8: with a declination of 0 and an hour angle of 0 the elevation at
\* latitude lat is 90 - |lat|, so 90 at the equator.
C8_NoonElevation ==
    (/\ fn = "_calculate_sun_elevation" /\ returned
     /\ args.declination = <<"rad", RInt(0)>>
     /\ locals["hour_angle"] = RInt(0)) =>
        outcome[2] = RSub(RInt(90), RAbs(args.latitude))

\* C9: the grid samples the centers of the pixels: the pixel of row r and
\* column c has longitude left + (c + 1/2) * (right - left) / cols and
\* latitude bottom + (r + 1/2) * (top - bottom) / rows; with right > left
\* and top > bottom every sample is strictly inside the box, longitude
\* grows with the column and latitude with the row.
C9_PixelCenters ==
    (fn = "sun_elevation" /\ assigned("lng")) =>
        LET b == args.bounds
            nr == locals["rows"]
            nc == locals["cols"]
            lo == locals["lng"]
            la == locals["lat"]
        IN  /\ DOMAIN lo = 0..(nr - 1) /\ DOMAIN la = 0..(nr - 1)
            /\ \A r \in 0..(nr - 1) :
                  /\ DOMAIN lo[r] = 0..(nc - 1) /\ DOMAIN la[r] = 0..(nc - 1)
                  /\ \A c \in 0..(nc - 1) :
                        /\ lo[r][c] = Rat(2 * nc * b.left
                                          + (2 * c + 1) * (b.right - b.left),
                                          2 * nc)
                        /\ la[r][c] = Rat(2 * nr * b.bottom
                                          + (2 * r + 1) * (b.top - b.bottom),
                                          2 * nr)
                        /\ (b.right > b.left) =>
                              /\ RLt(RInt(b.left), lo[r][c])
                              /\ RLt(lo[r][c], RInt(b.right))
                              /\ c > 0 => RLt(lo[r][c - 1], lo[r][c])
                        /\ (b.top > b.bottom) =>
                              /\ RLt(RInt(b.bottom), la[r][c])
                              /\ RLt(la[r][c], RInt(b.top))
                              /\ r > 0 => RLt(la[r - 1][c], la[r][c])

C9_Witness ==
    /\ fn = "sun_elevation" /\ assigned("lng")
    /\ locals["rows"] = 2 /\ locals["cols"] = 2
    /\ args.bounds.right > args.bounds.left
    /\ args.bounds.top > args.bounds.bottom

\* C10: the declination is one scalar for the call; it is the unsigned
\* value of the day times -1 when the mean latitude of the grid is <= 0
\* (0 included) and times +1 when it is > 0, and that one value serves
\* every pixel, whichever side of the equator the pixel is on.
C10_HemisphereSign ==
    (fn = "sun_elevation" /\ assigned("declination")) =>
        LET la == locals["lat"]
            m == mean(la)
            f == IF RLe(m, RInt(0)) THEN -1 ELSE 1
            north == [r \in {0} |-> [c \in {0} |-> RInt(1)]]
            base == calculate_declination(tm_yday(locals["utc_time"]), north)
        IN  /\ locals["declination"] = <<"rad", RMul(base[2], RInt(f))>>
            /\ returned =>
                  \A r \in DOMAIN la : \A c \in DOMAIN la[r] :
                      outcome[2][r][c] =
                          _calculate_sun_elevation(locals["lng"][r][c], la[r][c],
                              <<"rad", RMul(base[2], RInt(f))>>,
                              locals["decimal_hour"])

C10_Witness ==
    /\ fn = "sun_elevation" /\ returned
    /\ mean(locals["lat"]) = RInt(0)
    /\ locals["rows"] = 2
    /\ RLt(locals["lat"][0][0], RInt(0)) /\ RLt(RInt(0), locals["lat"][1][0])
    /\ locals["declination"][2] # RInt(0)

====
